---- MODULE Spec2Model ----
\* Model of django-cache-utils: the `cached` decorator (cache_utils/decorators.py),
\* the key sanitizer (cache_utils/utils.py) and the group-aware cache backend the
\* decorator talks to.  Text is a sequence of code points; Python values are
\* records tagged with their type.
EXTENDS Integers, Sequences, FiniteSets, TLC

\* ---------------------------------------------------------------- bounds
MaxOps == 3            \* operations started in one behaviour
MaxPad == 12           \* longest padding of a sanitizer input
NumCallers == 2        \* concurrent callers (threads) sharing the backend

Callers == 1..NumCallers

\* ---------------------------------------------------------------- values
None == [type |-> "NoneType"]
PyInt(n) == [type |-> "int", val |-> n]
PyStr(s) == [type |-> "str", val |-> s]

\* Python truthiness of a value (`not value`, decorators.py line 128).
Truthy(v) ==
    CASE v.type = "NoneType" -> FALSE
      [] v.type = "int" -> v.val # 0
      [] v.type = "str" -> Len(v.val) > 0

\* ---------------------------------------------------------------- text
RECURSIVE Concat(_)
Concat(ss) == IF ss = <<>> THEN <<>> ELSE Head(ss) \o Concat(Tail(ss))

RECURSIVE Join(_, _)
Join(ss, sep) ==
    IF ss = <<>> THEN <<>>
    ELSE IF Len(ss) = 1 THEN ss[1]
    ELSE ss[1] \o sep \o Join(Tail(ss), sep)

RECURSIVE Digits(_)
Digits(n) == IF n < 10 THEN <<48 + n>> ELSE Digits(n \div 10) \o <<48 + (n % 10)>>

\* repr() of an argument atom: decimal digits for an int, quoted text for a str.
Repr(v) ==
    CASE v.type = "int" -> IF v.val < 0 THEN <<45>> \o Digits(0 - v.val) ELSE Digits(v.val)
      [] v.type = "str" -> <<39>> \o v.val \o <<39>>
      [] v.type = "NoneType" -> <<78, 111, 110, 101>>

\* repr() of a tuple of atoms: "()", "(a,)", "(a, b)".
ReprTuple(t) ==
    IF Len(t) = 1 THEN <<40>> \o Repr(t[1]) \o <<44, 41>>
    ELSE <<40>> \o Join([i \in 1..Len(t) |-> Repr(t[i])], <<44, 32>>) \o <<41>>

\* repr() of a dict given as a sequence of <<name, atom>>: "{'k': v, ...}".
ReprDict(d) ==
    <<123>> \o Join([i \in 1..Len(d) |-> <<39>> \o d[i][1] \o <<39, 58, 32>> \o Repr(d[i][2])],
                    <<44, 32>>) \o <<125>>

CONTROL_CHARACTERS == (0..32) \cup {127}

PREFIX == <<91, 99, 97, 99, 104, 101, 100, 93>>

DEFAULT_MAX_LENGTH == 250

\* Django >= 1.8 (setup.py install_requires) always provides force_bytes.
force_bytes_importable == TRUE

\* md5(...).hexdigest(): 32 lower-case hex digits that depend on every code
\* point of the text and on its order (eight 16-bit lanes).
MulMod(a, b) == ((a % 256) * b + (((a \div 256) * b) % 65536) * 256) % 65536

RECURSIVE Pow(_, _)
Pow(m, n) ==
    IF n = 0 THEN 1
    ELSE LET half == Pow(m, n \div 2)
         IN MulMod(MulMod(half, half), IF n % 2 = 1 THEN m ELSE 1)

RECURSIVE Poly(_, _, _, _)
Poly(s, lo, hi, m) ==
    IF lo > hi THEN 0
    ELSE IF lo = hi THEN (s[lo] + 1) % 65536
    ELSE LET mid == (lo + hi) \div 2
         IN (MulMod(Poly(s, lo, mid, m), Pow(m, hi - mid)) + Poly(s, mid + 1, hi, m)) % 65536

\* The lane of multiplier m started at h: h' = (h * m + c + 1) % 65536 for each
\* code point c in order.
Lane(s, m, h) == (MulMod(h, Pow(m, Len(s))) + Poly(s, 1, Len(s), m)) % 65536

HexDigit(n) == IF n < 10 THEN 48 + n ELSE 87 + n

Hex4(h) == <<HexDigit(h \div 4096), HexDigit((h \div 256) % 16),
             HexDigit((h \div 16) % 16), HexDigit(h % 16)>>

LaneMul == <<31, 37, 41, 43, 47, 53, 59, 61>>

md5_hexdigest(s) == Concat([i \in 1..8 |-> Hex4(Lane(s, LaneMul[i], 7919 * i))])

Filter(s) == SelectSeq(s, LAMBDA c : c \notin CONTROL_CHARACTERS)

Slice(s, n) == IF n >= 0 THEN SubSeq(s, 1, IF n < Len(s) THEN n ELSE Len(s))
               ELSE SubSeq(s, 1, IF Len(s) + n > 0 THEN Len(s) + n ELSE 0)

sanitize_memcached_key_unbounded(key, max_length) == Filter(key)

sanitize_memcached_key(key, max_length) ==
    LET k == Filter(key) IN
    IF Len(k) > max_length
    THEN IF force_bytes_importable
         THEN md5_hexdigest(k)
         ELSE Slice(k, max_length - 33) \o <<45>> \o md5_hexdigest(k)
    ELSE k

\* smart_text(value): a str is its own text; an int is its digits; the
\* (args, kwargs) pair returned by default_key is the repr of that pair.
serialize(value) ==
    IF "args" \in DOMAIN value
    THEN <<40>> \o ReprTuple(value.args) \o <<44, 32>> \o ReprDict(value.kwargs) \o <<41>>
    ELSE IF value.type = "str" THEN value.val ELSE Repr(value)

default_key(a) == a

\* legacy_key: k = ''; if args: k += serialize(args); if kwargs: k += serialize(kwargs)
legacy_key(a) ==
    PyStr((IF a.args # <<>> THEN ReprTuple(a.args) ELSE <<>>)
          \o (IF a.kwargs # <<>> THEN ReprDict(a.kwargs) ELSE <<>>))

\* tests.py test_key_can_return_any_python_value: key=lambda x, y: x * y
product_key(a) == PyInt(a.args[1].val * a.args[2].val)

\* n copies of code point c (u"c" * n).
Rep(c, n) == [i \in 1..n |-> c]

\* ---------------------------------------------------------------- wrapped callables
\* f1: tests.py test_func_invalidation, `@cached(60) def my_func(a, b)`.
\* f2: tests.py test_decorator, `@cached(60, group=...) def my_func(params="")`.
Wrapped == {"f1", "f2"}

\* f3: `@cached(60) def f3(s)`, called with "a b" and with "ab"; it returns
\* None for "a b".
Colliding == {"f3"}

\* tests.py test_key_override (foo, bar), test_legacy_key (legacy_bar),
\* test_key_can_return_any_python_value (product), test_decorator with its
\* long arguments (my_func).
KeyTests == {"foo", "bar", "legacy_bar", "product", "my_func"}

\* `@cached(60, fn_key='')` and `@cached(60, fn_key=lambda fn: '')`.
Rejected == {"blank", "blank_fn"}

Decorated == Wrapped \cup Colliding \cup KeyTests

Groups == {"names", "colors"}

\* The decorator's `group` argument ("" when it is left out).
group(w) == IF w \in {"f2", "my_func"} THEN "names" ELSE ""

backend_kwargs_dropped(w) == <<>>

\* `if group: backend_kwargs = {'group': group} else: backend_kwargs = {}`
backend_kwargs(w) == IF group(w) # "" THEN [k \in {"group"} |-> group(w)] ELSE <<>>

timeout(w) == 60

Call(args, kwargs) == [args |-> args, kwargs |-> kwargs]

Hello == Call(<<PyInt(2)>>, <<<< <<102, 111, 111>>, PyStr(<<104, 101, 108, 108, 111>>) >>>>)

ArgsOf(w) ==
    IF w = "f1"
    THEN {Call(<<PyInt(1), PyInt(2)>>, <<>>), Call(<<PyInt(3), PyInt(2)>>, <<>>)}
    ELSE IF w = "f3"
    THEN {Call(<<PyStr(<<97, 32, 98>>)>>, <<>>), Call(<<PyStr(<<97, 98>>)>>, <<>>)}
    ELSE IF w \in {"foo", "blank", "blank_fn"} THEN {Call(<<>>, <<>>)}
    ELSE IF w = "bar" THEN {Hello}
    ELSE IF w = "legacy_bar"
    THEN {Hello, Call(<<>>, <<>>),
          Call(<<>>, <<<< <<102, 111, 111>>, PyStr(<<104, 101, 108, 108, 111>>) >>>>)}
    ELSE IF w = "product" THEN {Call(<<PyInt(2), PyInt(3)>>, <<>>)}
    ELSE IF w = "my_func"
    THEN {Call(<<PyStr(<<120>>)>>, <<>>), Call(<<PyStr(Rep(1081, 240))>>, <<>>),
          Call(<<PyStr(Rep(1067, 500))>>, <<>>)}
    ELSE {Call(<<PyStr(<<120>>)>>, <<>>)}

\* func.__name__
name(w) ==
    CASE w = "f1" -> <<102, 49>>
      [] w = "f3" -> <<102, 51>>
      [] w \in {"foo", "product", "blank", "blank_fn"} -> <<102, 111, 111>>
      [] w \in {"bar", "legacy_bar"} -> <<98, 97, 114>>
      [] w = "my_func" -> <<109, 121, 95, 102, 117, 110, 99>>
      [] OTHER -> <<102, 50>>

\* default_fn_key: module name and qualified name joined by a dot.
default_fn_key(w) ==
    <<99, 97, 99, 104, 101, 95, 117, 116, 105, 108, 115, 46, 116, 101, 115, 116, 115, 46>>
    \o name(w)

\* legacy_fn_key: module name, a dot, the name, a colon and the line number of
\* the definition (123 in tests.py test_legacy_key).
legacy_fn_key(w) ==
    <<99, 97, 99, 104, 101, 95, 117, 116, 105, 108, 115, 46, 116, 101, 115, 116, 115, 46>>
    \o name(w) \o <<58, 49, 50, 51>>

\* The decorator's `fn_key` argument: a callable applied to func, or a literal.
fn_key(w) ==
    CASE w \in {"foo", "product"} -> [callable |-> FALSE, text |-> <<102, 111, 111>>]
      [] w = "bar" -> [callable |-> FALSE,
                       text |-> <<102, 117, 110, 99, 95, 119, 105, 116, 104, 95, 97, 114, 103, 115>>]
      [] w = "blank" -> [callable |-> FALSE, text |-> <<>>]
      [] w = "blank_fn" -> [callable |-> TRUE, text |-> <<>>]
      [] w = "legacy_bar" -> [callable |-> TRUE, text |-> legacy_fn_key(w)]
      [] OTHER -> [callable |-> TRUE, text |-> default_fn_key(w)]

\* fn_key_str = str(fn_key(func) if callable(fn_key) else fn_key)
fn_key_str(w) == fn_key(w).text

\* The decorator's `key` argument applied to the call's arguments.
arg_key(w, a) ==
    CASE w = "legacy_bar" -> legacy_key(a)
      [] w = "product" -> product_key(a)
      [] OTHER -> default_key(a)

get_key_unsanitized(w, a) ==
    PREFIX \o fn_key_str(w) \o <<40>> \o serialize(arg_key(w, a)) \o <<41>>

get_key(w, a) ==
    sanitize_memcached_key(
        PREFIX \o fn_key_str(w) \o <<40>> \o serialize(arg_key(w, a)) \o <<41>>,
        DEFAULT_MAX_LENGTH)

KeyTable == [w \in Decorated |-> [a \in ArgsOf(w) |-> get_key(w, a)]]

\* Keys and values written to the backend directly (tests.py test_group_invalidation).
\* cache.set('vasia', 'foo', 60, group='names'); cache.set('red', 'good', 60, group='colors')
DirectSets == {[key |-> <<118, 97, 115, 105, 97>>, value |-> PyStr(<<102, 111, 111>>),
                group |-> "names"],
               [key |-> <<114, 101, 100>>, value |-> PyStr(<<103, 111, 111, 100>>),
                group |-> "colors"]}

\* ---------------------------------------------------------------- state
VARIABLES
    cache,       \* backend store: physical key -> stored value
    token,       \* GroupIndex: group name -> current version token
    call_count,  \* invocations of wrapped callables so far (tests.py call_count)
    frame,       \* per caller: the operation in progress and its local variables
    done,        \* the operation that finished in the last step, if any: what it did
                 \* and what its caller got
    func,        \* the callable this run wraps (each test wraps one)
    nops,        \* operations started so far
    failed,      \* whether the last step was a backend call that raised
    computed,    \* history, in the runs that keep one: <<key, value>> for every
                 \* value the wrapped callable returned to an operation with that key
    overtaken,   \* callers whose call-through has computed a value and not yet
                 \* stored it, while an invalidate of the same key returned
    wrap,        \* `cached(...)(func)`: "decorating" while _cached runs, then
                 \* "wrapper" (the wrapper it returned) or "ValueError"
    san          \* a call of sanitize_memcached_key: arguments and result

vars == <<cache, token, call_count, frame, done, func, nops, failed, computed, overtaken,
          wrap, san>>

NoCall == Call(<<>>, <<>>)

\* A caller's frame. calls, gets, sets count the invocations of the wrapped
\* callable and the backend get and set calls the operation has made; after
\* is "invalidate" for a call-through that started in the step right after an
\* invalidate with the same arguments returned, else "none", and dropped is the
\* entry that invalidate removed; after is "overtaken" for a call-through that
\* started right after an overtaken call-through with the same arguments
\* stored its value.
Idle == [pc |-> "idle", op |-> "none", w |-> "none", a |-> NoCall, key |-> <<>>,
         value |-> None, calls |-> 0, gets |-> 0, sets |-> 0, after |-> "none",
         dropped |-> None]

\* old is the entry the backend held under the operation's key just before the
\* operation's last backend call.
NoneDone == [op |-> "none", w |-> "none", a |-> NoCall, key |-> <<>>, kwargs |-> <<>>,
             outcome |-> "none", ret |-> None, old |-> None,
             calls |-> 0, gets |-> 0, sets |-> 0, after |-> "none", dropped |-> None,
             overtaken |-> FALSE]

\* The history with one more invocation: its key and the value it returned.
NoHistory == [kept |-> FALSE, seen |-> {}]

record(h, key, value) == IF h.kept THEN [h EXCEPT !.seen = @ \cup {<<key, value>>}] ELSE h

\* No sanitizer call under test.
NoSanitize == [key |-> <<>>, max_length |-> 0, outcome |-> "none", result |-> <<>>]

\* ---------------------------------------------------------------- backend
\* The group-aware backend: a key used with a group is namespaced by the
\* group's current version token; a key used without a group is used as is.
GroupOf(kwargs) == IF "group" \in DOMAIN kwargs THEN kwargs["group"] ELSE ""

make_key(tok, key, kwargs) ==
    IF GroupOf(kwargs) = "" THEN [group |-> "", token |-> 0, key |-> key]
    ELSE [group |-> GroupOf(kwargs), token |-> tok[GroupOf(kwargs)], key |-> key]

backend_get(c, tok, key, kwargs) ==
    LET pk == make_key(tok, key, kwargs) IN IF pk \in DOMAIN c THEN c[pk] ELSE None

backend_set(c, tok, key, value, kwargs) ==
    LET pk == make_key(tok, key, kwargs) IN
    [e \in DOMAIN c \cup {pk} |-> IF e = pk THEN value ELSE c[e]]

backend_delete(c, tok, key, kwargs) ==
    LET pk == make_key(tok, key, kwargs) IN [e \in DOMAIN c \ {pk} |-> c[e]]

advance_token_wrapping(tok, g) == [tok EXCEPT ![g] = 1 - @]

\* invalidateGroup advances the group's version token.
advance_token(tok, g) == [tok EXCEPT ![g] = @ + 1]

InGroup(g) == [k \in {"group"} |-> g]

\* ---------------------------------------------------------------- the wrapped callable
\* What a wrapped callable may return on its n-th invocation: the number of
\* earlier invocations (a counter as in tests.py my_func, falsy the first time),
\* or None.
Results(n) == {PyInt(n - 1), None}

\* What the n-th invocation, of w with arguments a, can return: f3 returns None
\* for "a b".
ResultsOf(w, a, n) ==
    IF w = "f3" /\ a = Call(<<PyStr(<<97, 32, 98>>)>>, <<>>) THEN {None} ELSE Results(n)

\* ---------------------------------------------------------------- decorator
\* wrapper: `cache_backend.get(key, **backend_kwargs)`
wrapper_get(c, tok, w, key) == backend_get(c, tok, key, backend_kwargs(w))

is_miss_falsy(value) == ~Truthy(value)

\* wrapper: `if value is None`, what counts as a miss for call-through.
is_miss(value) == value = None

wrapper_set_skipped(c, tok, w, key, value) == c

wrapper_set_timeout(c, tok, w, key, value) ==
    backend_set(c, tok, key, PyInt(timeout(w)), backend_kwargs(w))

wrapper_add(c, tok, w, key, value) ==
    IF make_key(tok, key, backend_kwargs(w)) \in DOMAIN c THEN c
    ELSE backend_set(c, tok, key, value, backend_kwargs(w))

\* wrapper: `cache_backend.set(key, value, timeout, **backend_kwargs)`
wrapper_set(c, tok, w, key, value) == backend_set(c, tok, key, value, backend_kwargs(w))

invalidate_delete_no_kwargs(c, tok, w, key) == backend_delete(c, tok, key, <<>>)

invalidate_delete_all(c, tok, w, key) == <<>>

invalidate_delete_as_set(c, tok, w, key) == backend_set(c, tok, key, None, backend_kwargs(w))

\* invalidate: `cache_backend.delete(key, **backend_kwargs)`
invalidate_delete(c, tok, w, key) == backend_delete(c, tok, key, backend_kwargs(w))

force_recalc_add(c, tok, w, key, value) ==
    IF make_key(tok, key, backend_kwargs(w)) \in DOMAIN c THEN c
    ELSE backend_set(c, tok, key, value, backend_kwargs(w))

\* force_recalc: `cache_backend.set(key, value, timeout, **backend_kwargs)`
force_recalc_set(c, tok, w, key, value) ==
    backend_set(c, tok, key, value, backend_kwargs(w))

\* require_cache: `cache_backend.get(key, **backend_kwargs)`
require_cache_get(c, tok, w, key) == backend_get(c, tok, key, backend_kwargs(w))

is_required_miss_never(value) == FALSE

is_required_miss_none(value) == value = None

\* require_cache: `if not value`, what counts as a miss for the cache-only read.
is_required_miss(value) == ~Truthy(value)

\* The callers whose call-through on w's key has read a miss (line 92), has
\* computed its value (line 96) and has not yet stored it (line 97).
InFlightMiss(w, key) ==
    {q \in Callers : /\ frame[q].op = "wrapper" /\ frame[q].w = w /\ frame[q].key = key
                     /\ frame[q].pc = "set"}

\* Callers are interchangeable threads: a new operation is taken by the first
\* idle one.
Start(p) ==
    /\ frame[p].pc = "idle"
    /\ \A q \in Callers : q < p => frame[q].pc # "idle"
    /\ nops < MaxOps

\* The frame of a new operation op on w's arguments a.
NewFrame(op, w, a) ==
    LET follows == /\ op = "wrapper" /\ done.op = "invalidate"
                   /\ done.w = w /\ done.a = a /\ done.outcome = "return"
        stale == /\ op = "wrapper" /\ done.op = "wrapper" /\ done.overtaken
                 /\ done.w = w /\ done.a = a /\ done.outcome = "return"
    IN [Idle EXCEPT !.op = op, !.w = w, !.a = a, !.key = KeyTable[w][a],
                    !.after = IF follows THEN "invalidate"
                              ELSE IF stale THEN "overtaken" ELSE "none",
                    !.dropped = IF follows THEN done.old ELSE None]

\* The operation of frame f ends: its caller gets `ret` or the exception `outcome`.
Finish(p, f, outcome, ret) ==
    /\ frame' = [frame EXCEPT ![p] = Idle]
    /\ done' = [op |-> f.op, w |-> f.w, a |-> f.a, key |-> f.key,
                kwargs |-> backend_kwargs(f.w),
                outcome |-> outcome, ret |-> ret,
                old |-> backend_get(cache, token, f.key, backend_kwargs(f.w)),
                calls |-> f.calls, gets |-> f.gets, sets |-> f.sets, after |-> f.after,
                dropped |-> f.dropped, overtaken |-> p \in overtaken]

backend_call_swallowed(p, f) == Finish(p, f, "return", f.value)

\* No handler catches anything: an exception of a backend call ends the
\* operation and reaches the caller.
backend_call_failed(p, f) == Finish(p, f, "BackendError", None)

\* wrapper, the lookup: key = _get_key(...); value = cache_backend.get(key);
\* on a hit the value is returned.
WrapperLookup(p, w, a) ==
    /\ Start(p)
    /\ nops' = nops + 1
    /\ LET f == [NewFrame("wrapper", w, a) EXCEPT !.gets = 1]
           value == wrapper_get(cache, token, w, f.key)
       IN \/ /\ is_miss(value)
             /\ frame' = [frame EXCEPT ![p] = [f EXCEPT !.pc = "calc"]]
             /\ done' = NoneDone
             /\ failed' = FALSE
          \/ /\ ~is_miss(value)
             /\ Finish(p, f, "return", value)
             /\ failed' = FALSE
          \/ /\ failed' = TRUE
             /\ backend_call_failed(p, f)
    /\ UNCHANGED <<cache, token, call_count, func, computed, overtaken, wrap, san>>

\* wrapper, the miss: value = func(*args, **kwargs).
WrapperCompute(p) ==
    /\ frame[p].pc = "calc"
    /\ frame[p].op = "wrapper"
    /\ call_count' = call_count + 1
    /\ \E r \in ResultsOf(frame[p].w, frame[p].a, call_count + 1) :
           /\ frame' = [frame EXCEPT ![p] = [@ EXCEPT !.pc = "set", !.value = r,
                                                      !.calls = @ + 1]]
           /\ computed' = record(computed, frame[p].key, r)
    /\ done' = NoneDone
    /\ failed' = FALSE
    /\ UNCHANGED <<cache, token, func, nops, overtaken, wrap, san>>

\* wrapper, the store: cache_backend.set(key, value, timeout); return value.
WrapperStore(p) ==
    /\ frame[p].pc = "set"
    /\ frame[p].op = "wrapper"
    /\ LET f == [frame[p] EXCEPT !.sets = @ + 1] IN
          \/ /\ cache' = wrapper_set(cache, token, f.w, f.key, f.value)
             /\ Finish(p, f, "return", f.value)
             /\ failed' = FALSE
          \/ /\ failed' = TRUE
             /\ backend_call_failed(p, f)
             /\ UNCHANGED cache
    /\ overtaken' = overtaken \ {p}
    /\ UNCHANGED <<token, call_count, func, nops, computed, wrap, san>>

\* invalidate: key = _get_key(...); cache_backend.delete(key).
Invalidate(p, w, a) ==
    /\ Start(p)
    /\ nops' = nops + 1
    /\ LET f == NewFrame("invalidate", w, a)
       IN \/ /\ cache' = invalidate_delete(cache, token, w, f.key)
             /\ Finish(p, f, "return", None)
             /\ failed' = FALSE
             /\ overtaken' = overtaken \cup InFlightMiss(w, f.key)
          \/ /\ failed' = TRUE
             /\ backend_call_failed(p, f)
             /\ UNCHANGED <<cache, overtaken>>
    /\ UNCHANGED <<token, call_count, func, computed, wrap, san>>

\* force_recalc, the call: key = _get_key(...); value = func(*args, **kwargs).
ForceRecalcCompute(p, w, a) ==
    /\ Start(p)
    /\ nops' = nops + 1
    /\ call_count' = call_count + 1
    /\ \E r \in ResultsOf(w, a, call_count + 1) :
           /\ frame' = [frame EXCEPT ![p] =
                           [NewFrame("force_recalc", w, a) EXCEPT !.pc = "set", !.value = r,
                                                                  !.calls = 1]]
           /\ computed' = record(computed, KeyTable[w][a], r)
    /\ done' = NoneDone
    /\ failed' = FALSE
    /\ UNCHANGED <<cache, token, func, overtaken, wrap, san>>

\* force_recalc, the store: cache_backend.set(key, value, timeout); return value.
ForceRecalcStore(p) ==
    /\ frame[p].pc = "set"
    /\ frame[p].op = "force_recalc"
    /\ LET f == [frame[p] EXCEPT !.sets = @ + 1] IN
          \/ /\ cache' = force_recalc_set(cache, token, f.w, f.key, f.value)
             /\ Finish(p, f, "return", f.value)
             /\ failed' = FALSE
          \/ /\ failed' = TRUE
             /\ backend_call_failed(p, f)
             /\ UNCHANGED cache
    /\ UNCHANGED <<token, call_count, func, nops, computed, overtaken, wrap, san>>

\* require_cache: value = cache_backend.get(key); raise NoCachedValueException
\* if not value, else return it.
RequireCache(p, w, a) ==
    /\ Start(p)
    /\ nops' = nops + 1
    /\ LET f == [NewFrame("require_cache", w, a) EXCEPT !.gets = 1]
           value == require_cache_get(cache, token, w, f.key)
       IN \/ /\ is_required_miss(value)
             /\ Finish(p, f, "NoCachedValueException", None)
             /\ failed' = FALSE
          \/ /\ ~is_required_miss(value)
             /\ Finish(p, f, "return", value)
             /\ failed' = FALSE
          \/ /\ failed' = TRUE
             /\ backend_call_failed(p, f)
    /\ UNCHANGED <<cache, token, call_count, func, computed, overtaken, wrap, san>>

\* ---------------------------------------------------------------- direct backend use
Direct(op, key, g, ret) ==
    [NoneDone EXCEPT !.op = op, !.key = key, !.kwargs = InGroup(g), !.outcome = "return",
                     !.ret = ret, !.old = backend_get(cache, token, key, InGroup(g))]

\* cache.set(key, value, 60, group=g)
CacheSet(key, value, g) ==
    /\ nops < MaxOps
    /\ nops' = nops + 1
    /\ cache' = backend_set(cache, token, key, value, InGroup(g))
    /\ done' = Direct("cache.set", key, g, value)
    /\ failed' = FALSE
    /\ UNCHANGED <<token, call_count, frame, func, computed, overtaken, wrap, san>>

\* cache.invalidate_group(g)
InvalidateGroup(g) ==
    /\ nops < MaxOps
    /\ nops' = nops + 1
    /\ token' = advance_token(token, g)
    /\ done' = Direct("cache.invalidate_group", <<>>, g, None)
    /\ failed' = FALSE
    /\ UNCHANGED <<cache, call_count, frame, func, computed, overtaken, wrap, san>>

\* An entry reaches its timeout and the backend drops it.
Expire(e) ==
    /\ e \in DOMAIN cache
    /\ cache' = [x \in DOMAIN cache \ {e} |-> cache[x]]
    /\ done' = NoneDone
    /\ failed' = FALSE
    /\ UNCHANGED <<token, call_count, frame, func, nops, computed, overtaken, wrap, san>>

\* ---------------------------------------------------------------- specification
Init ==
    /\ cache = <<>>
    /\ token = [g \in Groups |-> 0]
    /\ call_count = 0
    /\ frame = [p \in Callers |-> Idle]
    /\ done = NoneDone
    /\ func \in Wrapped
    /\ nops = 0
    /\ failed = FALSE
    /\ computed = NoHistory
    /\ overtaken = {}
    /\ wrap = "wrapper"
    /\ san = NoSanitize

Next ==
    \/ \E p \in Callers, a \in ArgsOf(func) : WrapperLookup(p, func, a)
    \/ \E p \in Callers : WrapperCompute(p)
    \/ \E p \in Callers : WrapperStore(p)
    \/ \E p \in Callers, a \in ArgsOf(func) : Invalidate(p, func, a)
    \/ \E p \in Callers, a \in ArgsOf(func) : ForceRecalcCompute(p, func, a)
    \/ \E p \in Callers : ForceRecalcStore(p)
    \/ \E p \in Callers, a \in ArgsOf(func) : RequireCache(p, func, a)
    \/ \E s \in DirectSets : CacheSet(s.key, s.value, s.group)
    \/ \E g \in Groups : InvalidateGroup(g)
    \/ \E e \in DOMAIN cache : Expire(e)

Spec == Init /\ [][Next]_vars

\* ---------------------------------------------------------------- history
\* One wrapped callable whose operations are the only writers of the backend,
\* with the history of the values it has returned.
HistoryInit ==
    /\ cache = <<>>
    /\ token = [g \in Groups |-> 0]
    /\ call_count = 0
    /\ frame = [p \in Callers |-> Idle]
    /\ done = NoneDone
    /\ func \in Wrapped
    /\ nops = 0
    /\ failed = FALSE
    /\ computed = [NoHistory EXCEPT !.kept = TRUE]
    /\ overtaken = {}
    /\ wrap = "wrapper"
    /\ san = NoSanitize

HistoryNext ==
    \/ \E p \in Callers, a \in ArgsOf(func) : WrapperLookup(p, func, a)
    \/ \E p \in Callers : WrapperCompute(p)
    \/ \E p \in Callers : WrapperStore(p)
    \/ \E p \in Callers, a \in ArgsOf(func) : Invalidate(p, func, a)
    \/ \E p \in Callers, a \in ArgsOf(func) : ForceRecalcCompute(p, func, a)
    \/ \E p \in Callers : ForceRecalcStore(p)
    \/ \E p \in Callers, a \in ArgsOf(func) : RequireCache(p, func, a)
    \/ \E e \in DOMAIN cache : Expire(e)

HistorySpec == HistoryInit /\ [][HistoryNext]_vars

\* ---------------------------------------------------------------- keys
\* The sanitizer and the decorator on their own: one call of
\* sanitize_memcached_key, or one decoration followed by the operations of one
\* caller, get_cache_key among them.

\* tests.py test_sanitize_keys: the 50-character key.
Key50 == [i \in 1..50 |-> 48 + (i % 10)]

\* Sanitizer inputs: a head ('', 'a b', the 50-character key) padded with up
\* to MaxPad copies of a letter, a space, DEL or a Cyrillic letter.
SanitizeKeys ==
    {h \o Rep(c, n) : h \in {<<>>, <<97, 32, 98>>, Key50},
                      c \in {97, 32, 127, 1081}, n \in 0..MaxPad}

\* The long arguments of test_decorator, u"\u0439" * 240 and u"\u042b" * 500,
\* padded in the same way.
LongKeys ==
    {h \o Rep(c, n) : h \in {Rep(1081, 240), Rep(1067, 500)}, c \in {97, 32}, n \in 0..MaxPad}

\* max_length arguments: around the 33 characters of '-' + digest, 40 of
\* test_sanitize_keys, the default, and two that are far too small.
MaxLengths == (30..40) \cup {0, 10, DEFAULT_MAX_LENGTH}

SanitizeCall(k, m) == [key |-> k, max_length |-> m, outcome |-> "called", result |-> <<>>]

SanitizeCalls ==
    {SanitizeCall(k, m) : k \in SanitizeKeys, m \in MaxLengths}
    \cup {SanitizeCall(k, DEFAULT_MAX_LENGTH) : k \in LongKeys}

\* sanitize_memcached_key(key, max_length): no statement of it raises.
Sanitize ==
    /\ san.outcome = "called"
    /\ san' = [san EXCEPT !.outcome = "return",
                          !.result = sanitize_memcached_key(san.key, san.max_length)]
    /\ UNCHANGED <<cache, token, call_count, frame, done, func, nops, failed, computed,
                   overtaken, wrap>>

is_blank_never(s) == FALSE

\* `if not fn_key_str`
is_blank(s) == s = <<>>

\* _cached(func): fn_key_str is resolved; `if not fn_key_str: raise ValueError`,
\* else the wrapper is returned.
Decorate ==
    /\ wrap = "decorating"
    /\ wrap' = IF is_blank(fn_key_str(func)) THEN "ValueError" ELSE "wrapper"
    /\ UNCHANGED <<cache, token, call_count, frame, done, func, nops, failed, computed,
                   overtaken, san>>

\* get_cache_key: return _get_key(*args, **kwargs).
GetCacheKey(p, w, a) ==
    /\ Start(p)
    /\ nops' = nops + 1
    /\ LET f == NewFrame("get_cache_key", w, a) IN Finish(p, f, "return", PyStr(f.key))
    /\ failed' = FALSE
    /\ UNCHANGED <<cache, token, call_count, func, computed, overtaken, wrap, san>>

KeyInit ==
    /\ cache = <<>>
    /\ token = [g \in Groups |-> 0]
    /\ call_count = 0
    /\ frame = [p \in Callers |-> Idle]
    /\ done = NoneDone
    /\ nops = 0
    /\ failed = FALSE
    /\ computed = NoHistory
    /\ overtaken = {}
    /\ \/ /\ func = "none"
          /\ wrap = "none"
          /\ san \in SanitizeCalls
       \/ /\ func \in Decorated \cup Rejected
          /\ wrap = "decorating"
          /\ san = NoSanitize

\* The operations of the wrapper that _cached returned, made by one caller.
KeyNext ==
    \/ Sanitize
    \/ Decorate
    \/ wrap = "wrapper" /\ \E a \in ArgsOf(func) : GetCacheKey(1, func, a)
    \/ wrap = "wrapper" /\ \E a \in ArgsOf(func) : WrapperLookup(1, func, a)
    \/ wrap = "wrapper" /\ WrapperCompute(1)
    \/ wrap = "wrapper" /\ WrapperStore(1)
    \/ wrap = "wrapper" /\ \E a \in ArgsOf(func) : Invalidate(1, func, a)
    \/ wrap = "wrapper" /\ \E a \in ArgsOf(func) : ForceRecalcCompute(1, func, a)
    \/ wrap = "wrapper" /\ ForceRecalcStore(1)
    \/ wrap = "wrapper" /\ \E a \in ArgsOf(func) : RequireCache(1, func, a)

KeySpec == KeyInit /\ [][KeyNext]_vars

\* ---------------------------------------------------------------- properties
\* The step starts operation op of wrapped callable w with arguments a.
Begins(op, w, a) ==
    /\ nops' = nops + 1
    /\ \/ done'.op = op /\ done'.w = w /\ done'.a = a
       \/ \E p \in Callers : /\ frame[p].pc = "idle"
                             /\ frame'[p].op = op /\ frame'[p].w = w /\ frame'[p].a = a

\* The step is a backend call that failed.
Failed == failed'

\* The entry the backend holds for the key of w's arguments a.
Entry(c, tok, w, a) == backend_get(c, tok, KeyTable[w][a], backend_kwargs(w))

\* The step ends an operation whose caller gets the value v.
Returns(op, w, a, v) ==
    /\ done'.op = op /\ done'.w = w /\ done'.a = a
    /\ done'.outcome = "return" /\ done'.ret = v

\* C1: a call-through returns a non-None entry without invoking the wrapped
\* callable or writing to the backend; on a miss it invokes the callable once,
\* stores the result under the key and returns it; a call-through right after
\* one that returned a non-None value, with the same arguments, returns the
\* same value without an invocation.
C1_CallThrough ==
    [][/\ \A w \in Wrapped : \A a \in ArgsOf(w) :
            (Begins("wrapper", w, a) /\ ~Failed) =>
                /\ cache' = cache
                /\ call_count' = call_count
                /\ IF Entry(cache, token, w, a) # None
                   THEN /\ Returns("wrapper", w, a, Entry(cache, token, w, a))
                        /\ done'.calls = 0 /\ done'.sets = 0
                   ELSE /\ done'.op = "none"
                        /\ \E p \in Callers : /\ frame[p].pc = "idle"
                                              /\ frame'[p].pc = "calc"
                                              /\ frame'[p].w = w /\ frame'[p].a = a
       /\ \A p \in Callers :
            (frame[p].op = "wrapper" /\ frame[p].pc = "calc" /\ frame'[p] # frame[p]) =>
                /\ call_count' = call_count + 1
                /\ frame'[p].pc = "set" /\ frame'[p].calls = 1
                /\ frame'[p].value \in Results(call_count')
                /\ cache' = cache
       /\ \A p \in Callers :
            (frame[p].op = "wrapper" /\ frame[p].pc = "set" /\ frame'[p] # frame[p]
             /\ ~Failed) =>
                /\ Returns("wrapper", frame[p].w, frame[p].a, frame[p].value)
                /\ done'.calls = 1 /\ done'.sets = 1
                /\ Entry(cache', token', frame[p].w, frame[p].a) = frame[p].value
                /\ call_count' = call_count
       /\ (/\ done.op = "wrapper" /\ done.outcome = "return" /\ done.ret # None
           /\ Begins("wrapper", done.w, done.a) /\ ~Failed) =>
                /\ Returns("wrapper", done.w, done.a, done.ret)
                /\ done'.calls = 0 /\ call_count' = call_count]_vars

\* A call-through was served from the cache after exactly one invocation.
C1_Witness ==
    /\ done.op = "wrapper" /\ done.outcome = "return"
    /\ done.calls = 0 /\ done.ret = PyInt(1) /\ call_count = 2 /\ nops = 3

\* C2: right after invalidate(a) has returned, a call-through with a finds a
\* miss, invokes the wrapped callable again and returns the value that
\* invocation computed.
C2_InvalidateThenRecompute ==
    [][/\ (done.op = "invalidate" /\ done.outcome = "return") =>
              Entry(cache, token, done.w, done.a) = None
       /\ (/\ done.op = "invalidate" /\ done.outcome = "return"
           /\ Begins("wrapper", done.w, done.a) /\ ~Failed) =>
              /\ done'.op = "none"
              /\ \E p \in Callers : /\ frame[p].pc = "idle"
                                    /\ frame'[p].pc = "calc"
                                    /\ frame'[p].after = "invalidate"
                                    /\ frame'[p].w = done.w /\ frame'[p].a = done.a
       /\ \A p \in Callers :
            (frame[p].op = "wrapper" /\ frame[p].after = "invalidate"
             /\ frame'[p] # frame[p]) =>
                IF frame[p].pc = "calc"
                THEN /\ call_count' = call_count + 1
                     /\ frame'[p].pc = "set"
                     /\ frame'[p].value \in Results(call_count')
                ELSE ~Failed => Returns("wrapper", frame[p].w, frame[p].a, frame[p].value)
       /\ (done'.op = "wrapper" /\ done'.after = "invalidate" /\ done'.outcome = "return") =>
              done'.calls = 1 /\ done'.sets = 1]_vars

\* A call-through right after an invalidate that removed the cached value 0
\* recomputed: it returned the value of the second invocation.
C2_Witness ==
    /\ done.op = "wrapper" /\ done.after = "invalidate" /\ done.outcome = "return"
    /\ done.dropped = PyInt(0)
    /\ done.calls = 1 /\ done.ret = PyInt(1) /\ call_count = 2 /\ nops = 3

\* C3: invalidate(a) leaves every entry stored under another key unchanged, so
\* a call-through with other arguments still hits and returns its cached value.
C3_InvalidateFrame ==
    [][/\ \A w \in Wrapped : \A a \in ArgsOf(w) :
            Begins("invalidate", w, a) =>
                LET pk == make_key(token, KeyTable[w][a], backend_kwargs(w)) IN
                /\ token' = token
                /\ DOMAIN cache' \subseteq DOMAIN cache
                /\ \A e \in DOMAIN cache \ {pk} : e \in DOMAIN cache' /\ cache'[e] = cache[e]
                /\ \A b \in ArgsOf(w) \ {a} :
                       KeyTable[w][b] # KeyTable[w][a] =>
                           Entry(cache', token', w, b) = Entry(cache, token, w, b)
                /\ \A s \in DirectSets :
                       backend_get(cache', token', s.key, InGroup(s.group))
                           = backend_get(cache, token, s.key, InGroup(s.group))
       /\ \A b \in ArgsOf(func) :
            (/\ done.op = "invalidate" /\ b # done.a
             /\ Entry(cache, token, func, b) # None
             /\ Begins("wrapper", func, b) /\ ~Failed) =>
                /\ Returns("wrapper", func, b, Entry(cache, token, func, b))
                /\ call_count' = call_count]_vars

\* An invalidate removed an entry while the entry for other arguments is held.
C3_Witness ==
    /\ done.op = "invalidate" /\ done.outcome = "return" /\ done.old # None
    /\ Entry(cache, token, done.w, done.a) = None
    /\ \E b \in ArgsOf(done.w) \ {done.a} : Entry(cache, token, done.w, b) # None

\* C4: require_cache never invokes the wrapped callable and never writes to
\* the backend; with no entry under the key it fails with NoCachedValueException.
C4_RequireCacheNeverComputes ==
    [][/\ \A w \in Wrapped : \A a \in ArgsOf(w) :
            Begins("require_cache", w, a) =>
                /\ done'.op = "require_cache"
                /\ done'.calls = 0 /\ done'.sets = 0
                /\ call_count' = call_count
                /\ cache' = cache /\ token' = token
                /\ (/\ make_key(token, KeyTable[w][a], backend_kwargs(w)) \notin DOMAIN cache
                    /\ ~Failed) => done'.outcome = "NoCachedValueException"
       /\ \A p \in Callers : frame'[p].op # "require_cache"]_vars

\* require_cache failed on a key that was never set, nothing was invoked.
C4_Witness ==
    /\ done.op = "require_cache" /\ done.outcome = "NoCachedValueException"
    /\ make_key(token, done.key, done.kwargs) \notin DOMAIN cache
    /\ call_count = 0 /\ cache = <<>>

\* C5: force_recalc invokes the wrapped callable once whether or not an entry
\* is held, overwrites the entry with the result and returns it; a
\* call-through right after it returns that value without an invocation.
C5_ForceRecalc ==
    [][/\ \A w \in Wrapped : \A a \in ArgsOf(w) :
            Begins("force_recalc", w, a) =>
                /\ call_count' = call_count + 1
                /\ cache' = cache
                /\ done'.op = "none"
                /\ \E p \in Callers : /\ frame[p].pc = "idle"
                                      /\ frame'[p].pc = "set"
                                      /\ frame'[p].calls = 1 /\ frame'[p].gets = 0
                                      /\ frame'[p].value \in Results(call_count')
       /\ \A p \in Callers :
            (frame[p].op = "force_recalc" /\ frame'[p] # frame[p] /\ ~Failed) =>
                /\ Returns("force_recalc", frame[p].w, frame[p].a, frame[p].value)
                /\ Entry(cache', token', frame[p].w, frame[p].a) = frame[p].value
                /\ done'.calls = 1 /\ done'.gets = 0 /\ done'.sets = 1
                /\ call_count' = call_count
       /\ (/\ done.op = "force_recalc" /\ done.outcome = "return" /\ done.ret # None
           /\ Begins("wrapper", done.w, done.a) /\ ~Failed) =>
                /\ Returns("wrapper", done.w, done.a, done.ret)
                /\ done'.calls = 0 /\ call_count' = call_count]_vars

\* A force_recalc replaced the entry held under its key by a fresh value.
C5_Witness ==
    /\ done.op = "force_recalc" /\ done.outcome = "return"
    /\ done.old = PyInt(0) /\ done.ret = PyInt(1)
    /\ Entry(cache, token, done.w, done.a) = PyInt(1)

\* Every key the model uses.
AllKeys ==
    {s.key : s \in DirectSets} \cup UNION {{KeyTable[w][a] : a \in ArgsOf(w)} : w \in Wrapped}

\* The step is cache.invalidate_group(g).
InvalidatesGroup(g) ==
    nops' = nops + 1 /\ done'.op = "cache.invalidate_group" /\ GroupOf(done'.kwargs) = g

\* C6: invalidating group G makes every entry written under G, directly or by
\* a callable wrapped with group=G, read as absent, and leaves every entry of
\* another group or of no group readable with its value.
C6_GroupIsolation ==
    [][\A G \in Groups :
          InvalidatesGroup(G) =>
              /\ \A k \in AllKeys : backend_get(cache', token', k, InGroup(G)) = None
              /\ \A w \in Wrapped : \A a \in ArgsOf(w) :
                     IF group(w) = G
                     THEN Entry(cache', token', w, a) = None
                     ELSE Entry(cache', token', w, a) = Entry(cache, token, w, a)
              /\ \A g \in Groups \ {G} : \A k \in AllKeys :
                     backend_get(cache', token', k, InGroup(g))
                         = backend_get(cache, token, k, InGroup(g))
              /\ \A k \in AllKeys :
                     backend_get(cache', token', k, <<>>) = backend_get(cache, token, k, <<>>)
              /\ cache' = cache]_vars

\* Group "names" was invalidated while it held an entry written by the wrapped
\* callable and group "colors" held one written directly.
C6_Witness ==
    /\ done.op = "cache.invalidate_group" /\ GroupOf(done.kwargs) = "names"
    /\ func = "f2"
    /\ \E a \in ArgsOf("f2") :
           LET e == [group |-> "names", token |-> token["names"] - 1, key |-> KeyTable["f2"][a]]
           IN e \in DOMAIN cache /\ cache[e] # None
    /\ \E s \in DirectSets :
           s.group = "colors" /\ backend_get(cache, token, s.key, InGroup("colors")) = s.value

\* C7: a group's token never returns to an earlier value, so an entry written
\* under a group before an invalidation of it stays unreadable; an absent entry
\* of a group becomes readable only by a set under the group, and reads as the
\* value set.
C7_GroupInvalidationPermanent ==
    [][/\ \A g \in Groups :
            /\ token'[g] >= token[g]
            /\ InvalidatesGroup(g) => token'[g] > token[g]
       /\ token' # token =>
            \A e \in DOMAIN cache :
                (e.group \in Groups /\ e.token < token[e.group]) =>
                    make_key(token', e.key, InGroup(e.group)) # e
       /\ (token' # token \/ cache' # cache) =>
            \A g \in Groups : \A k \in AllKeys :
                (/\ backend_get(cache, token, k, InGroup(g)) = None
                 /\ backend_get(cache', token', k, InGroup(g)) # None) =>
                    /\ token' = token
                    /\ done'.op \in {"cache.set", "wrapper", "force_recalc"}
                    /\ done'.key = k /\ GroupOf(done'.kwargs) = g
                    /\ done'.ret = backend_get(cache', token', k, InGroup(g))
       /\ (nops' = nops + 1 /\ done'.op = "cache.set") =>
                backend_get(cache', token', done'.key, done'.kwargs) = done'.ret]_vars

\* A key was set again under a group after the group was invalidated: the old
\* entry is still stored and the read returns the new one.
C7_Witness ==
    /\ done.op = "cache.set" /\ token[GroupOf(done.kwargs)] = 1
    /\ [group |-> GroupOf(done.kwargs), token |-> 0, key |-> done.key] \in DOMAIN cache
    /\ backend_get(cache, token, done.key, done.kwargs) = done.ret

\* C8: invalidate on a key with no entry raises nothing and leaves the backend
\* unchanged; a second invalidate right after the first changes nothing.
C8_IdempotentInvalidate ==
    [][\A w \in Wrapped : \A a \in ArgsOf(w) :
          (Begins("invalidate", w, a) /\ ~Failed) =>
              /\ done'.op = "invalidate" /\ done'.outcome = "return"
              /\ call_count' = call_count /\ token' = token
              /\ make_key(token, KeyTable[w][a], backend_kwargs(w)) \notin DOMAIN cache =>
                     cache' = cache
              /\ (done.op = "invalidate" /\ done.w = w /\ done.a = a
                  /\ done.outcome = "return") => cache' = cache]_vars

\* An invalidate returned for a key that was never set.
C8_Witness ==
    /\ done.op = "invalidate" /\ done.outcome = "return" /\ done.old = None
    /\ cache = <<>> /\ call_count = 0 /\ nops = 1

\* C9: a caller that has read a miss invokes the wrapped callable whatever the
\* other callers do, and its set overwrites whatever entry is held: the entry
\* left is the one of the last set.
C9_NoSingleFlight ==
    [][/\ \A w \in Wrapped : \A a \in ArgsOf(w) :
            (/\ Begins("wrapper", w, a) /\ ~Failed
             /\ Entry(cache, token, w, a) = None) =>
                \E p \in Callers : frame[p].pc = "idle" /\ frame'[p].pc = "calc"
       /\ \A p \in Callers :
            (frame[p].op = "wrapper" /\ frame'[p] # frame[p]) =>
                IF frame[p].pc = "calc"
                THEN call_count' = call_count + 1 /\ frame'[p].pc = "set"
                ELSE ~Failed =>
                        /\ Entry(cache', token', frame[p].w, frame[p].a) = frame[p].value
                        /\ done'.ret = frame[p].value
                        /\ done'.old = Entry(cache, token, frame[p].w, frame[p].a)]_vars

\* Two callers missed on the same key and each invoked the wrapped callable.
C9_Witness ==
    \E p \in Callers : \E q \in Callers \ {p} :
        /\ frame[p].op = "wrapper" /\ frame[q].op = "wrapper"
        /\ frame[p].pc = "set" /\ frame[q].pc = "set"
        /\ frame[p].w = frame[q].w /\ frame[p].a = frame[q].a
        /\ frame[p].value # frame[q].value
        /\ call_count = 2

\* C10: a failing backend call ends the operation with the failure: no retry,
\* no invocation of the wrapped callable as a fallback, nothing written.
C10_FailFast ==
    [][/\ Failed =>
            /\ done'.outcome = "BackendError"
            /\ cache' = cache /\ token' = token /\ call_count' = call_count
            /\ \A p \in Callers : frame'[p] = frame[p] \/ frame'[p] = Idle
       /\ \A w \in Wrapped : \A a \in ArgsOf(w) :
            (Begins("wrapper", w, a) /\ Failed) =>
                /\ done'.op = "wrapper" /\ done'.w = w /\ done'.a = a
                /\ done'.gets = 1 /\ done'.calls = 0 /\ done'.sets = 0
                /\ frame' = frame
       /\ \A p \in Callers :
            (frame[p].op = "wrapper" /\ frame[p].pc = "set" /\ frame'[p] # frame[p]
             /\ Failed) =>
                /\ done'.op = "wrapper" /\ done'.w = frame[p].w /\ done'.a = frame[p].a
                /\ done'.gets = 1 /\ done'.calls = 1 /\ done'.sets = 1
                /\ frame'[p] = Idle
       /\ \A p \in Callers : frame'[p].gets <= 1 /\ frame'[p].sets <= 1]_vars

\* The get of a call-through failed and the caller got the failure.
C10_Witness ==
    /\ done.op = "wrapper" /\ done.outcome = "BackendError"
    /\ done.gets = 1 /\ done.calls = 0 /\ call_count = 0 /\ failed

\* ---------------------------------------------------------------- key properties
\* The sanitizer call has returned for a key that, with its control characters
\* removed, is longer than max_length.
Oversized == san.outcome # "none" /\ Len(Filter(san.key)) > san.max_length

\* C11: for every input string and every max_length >= 34, the string that
\* sanitize_memcached_key returns is at most max_length long.
C11_SanitizationBound ==
    (san.outcome = "return" /\ san.max_length >= 34) => Len(san.result) <= san.max_length

\* test_sanitize_keys: the 50-character key with max_length 40 came back shortened.
C11_Witness ==
    /\ san.outcome = "return"
    /\ san.key = Key50
    /\ san.max_length = 40
    /\ Len(san.result) < Len(san.key)

\* C12: an oversized key comes back as the first max_length - 33 characters of
\* the filtered string, one separator character and the 32-character digest of
\* the filtered string.
C12_ReadableHead ==
    (san.outcome = "return" /\ Oversized /\ san.max_length >= 33) =>
        LET k == Filter(san.key)
            n == san.max_length - 33
        IN /\ Len(san.result) = n + 1 + 32
           /\ SubSeq(san.result, 1, n) = SubSeq(k, 1, n)
           /\ SubSeq(san.result, n + 2, n + 33) = md5_hexdigest(k)

\* C13: sanitizing an oversized key with max_length - 33 <= 0 ends with the
\* configuration error InvalidConfiguration, and never with a result longer
\* than max_length.
C13_TooSmallIsError ==
    (san.outcome \notin {"none", "called"} /\ Oversized /\ san.max_length - 33 <= 0) =>
        /\ san.outcome = "InvalidConfiguration"
        /\ Len(san.result) <= san.max_length

\* C14: wrapping fails with ValueError exactly when the resolved function
\* identity is empty, before any wrapper is returned and before any operation;
\* no call-through, invalidate, force_recalc, require_cache or get_cache_key
\* call raises it.
C14_EmptyIdentityRejected ==
    [][/\ wrap' # wrap =>
              /\ wrap = "decorating"
              /\ wrap' = "ValueError" <=> fn_key_str(func) = <<>>
              /\ wrap' = "wrapper" <=> fn_key_str(func) # <<>>
              /\ nops' = nops /\ frame' = frame /\ done' = done
       /\ nops' # nops => wrap = "wrapper" /\ wrap' = "wrapper"
       /\ done'.outcome # "ValueError"]_vars

\* `@cached(60, fn_key=lambda fn: '')` was rejected, and so was the literal ''.
C14_Witness == wrap = "ValueError" /\ func = "blank_fn" /\ nops = 0

\* The keys the tests expect from get_cache_key (tests.py lines 110, 118,
\* 130-141, 175).
Expected(w, a) ==
    CASE w = "foo" ->
             <<91, 99, 97, 99, 104, 101, 100, 93, 102, 111, 111, 40, 40, 40, 41, 44, 123,
               125, 41, 41>>
      [] w = "bar" ->
             <<91, 99, 97, 99, 104, 101, 100, 93, 102, 117, 110, 99, 95, 119, 105, 116,
               104, 95, 97, 114, 103, 115, 40, 40, 40, 50, 44, 41, 44, 123, 39, 102, 111,
               111, 39, 58, 39, 104, 101, 108, 108, 111, 39, 125, 41, 41>>
      [] w = "product" ->
             <<91, 99, 97, 99, 104, 101, 100, 93, 102, 111, 111, 40, 54, 41>>
      [] w = "legacy_bar" /\ a = Hello ->
             <<91, 99, 97, 99, 104, 101, 100, 93, 99, 97, 99, 104, 101, 95, 117, 116, 105,
               108, 115, 46, 116, 101, 115, 116, 115, 46, 98, 97, 114, 58, 49, 50, 51, 40,
               40, 50, 44, 41, 123, 39, 102, 111, 111, 39, 58, 39, 104, 101, 108, 108, 111,
               39, 125, 41>>
      [] w = "legacy_bar" /\ a = NoCall ->
             <<91, 99, 97, 99, 104, 101, 100, 93, 99, 97, 99, 104, 101, 95, 117, 116, 105,
               108, 115, 46, 116, 101, 115, 116, 115, 46, 98, 97, 114, 58, 49, 50, 51, 40,
               41>>
      [] w = "legacy_bar" /\ a \notin {Hello, NoCall} ->
             <<91, 99, 97, 99, 104, 101, 100, 93, 99, 97, 99, 104, 101, 95, 117, 116, 105,
               108, 115, 46, 116, 101, 115, 116, 115, 46, 98, 97, 114, 58, 49, 50, 51, 40,
               123, 39, 102, 111, 111, 39, 58, 39, 104, 101, 108, 108, 111, 39, 125, 41>>
      [] OTHER -> KeyTable[w][a]

\* The value the argument-key function returns: the (args, kwargs) pair by
\* default, the product for `lambda x, y: x * y`, the text of legacy_key.
ArgsSignature(w, a) ==
    IF w = "product" THEN PyInt(a.args[1].val * a.args[2].val)
    ELSE IF w = "legacy_bar" THEN legacy_key(a)
    ELSE a

\* The sanitized '[cached]' + identity + '(' + text of the signature + ')'.
Formatted ==
    [w \in Decorated |->
        [a \in ArgsOf(w) |->
            sanitize_memcached_key(
                PREFIX \o fn_key_str(w) \o <<40>> \o serialize(ArgsSignature(w, a)) \o <<41>>,
                DEFAULT_MAX_LENGTH)]]

\* The key the step's operation works on.
UsedKey == IF done'.op # "none" THEN done'.key ELSE frame'[1].key

Operations == {"wrapper", "invalidate", "force_recalc", "require_cache", "get_cache_key"}

\* C15: the key every operation uses is the sanitized '[cached]' + function
\* identity + '(' + text of the argument-key function's value + ')'; it is
\* the key the tests expect, the only key whose entry the operation writes or
\* deletes, and what get_cache_key returns.
C15_KeyFormat ==
    [][\A op \in Operations : \A a \in ArgsOf(func) :
           Begins(op, func, a) =>
               /\ UsedKey = Formatted[func][a]
               /\ UsedKey = Expected(func, a)
               /\ \A e \in DOMAIN cache \cup DOMAIN cache' :
                      (e \notin DOMAIN cache \/ e \notin DOMAIN cache' \/ cache'[e] # cache[e])
                          => e.key = UsedKey
               /\ op = "get_cache_key" => Returns(op, func, a, PyStr(UsedKey))]_vars

\* test_key_can_return_any_python_value: get_cache_key(2, 3) returned
\* '[cached]foo(6)'.
C15_Witness ==
    /\ done.op = "get_cache_key"
    /\ func = "product"
    /\ done.ret = PyStr(<<91, 99, 97, 99, 104, 101, 100, 93, 102, 111, 111, 40, 54, 41>>)

\* C16: with the default argument-key function, a call-through that follows an
\* operation which computed and stored a value for a different argument list
\* of the same callable uses a different cache key, and does not return that
\* value from the cache.
C16_DistinctKeys ==
    [][(func \in Decorated \ {"product", "legacy_bar"} /\ wrap = "wrapper") =>
           \A a \in ArgsOf(func) :
               (/\ Begins("wrapper", func, a)
                /\ done.op \in {"wrapper", "force_recalc"}
                /\ done.outcome = "return" /\ done.sets = 1 /\ done.a # a)
                   => /\ KeyTable[func][a] # done.key
                      /\ ~(/\ Returns("wrapper", func, a, done.ret)
                           /\ done'.calls = 0)]_vars

\* C17: when the wrapped callable returns None for arguments a, a call-through
\* with a whose backend get succeeds finds a miss and goes on to invoke the
\* callable, whatever was called before.
C17_NoneNeverServed ==
    [][\A a \in ArgsOf(func) :
           (/\ ResultsOf(func, a, call_count + 1) = {None}
            /\ Begins("wrapper", func, a)
            /\ ~Failed)
               => \E p \in Callers : /\ frame'[p].op = "wrapper" /\ frame'[p].a = a
                                     /\ frame'[p].pc = "calc"]_vars

\* C18: a call-through returns a falsy entry other than None without invoking
\* the wrapped callable; require_cache with the same arguments raises
\* NoCachedValueException for it, as for an absent entry, and returns the
\* entry only when it is truthy.
C18_FalsyEntries ==
    [][\A w \in Wrapped : \A a \in ArgsOf(w) :
           LET e == Entry(cache, token, w, a) IN
           /\ (Begins("wrapper", w, a) /\ ~Failed /\ e # None /\ ~Truthy(e)) =>
                  /\ Returns("wrapper", w, a, e)
                  /\ done'.calls = 0 /\ call_count' = call_count /\ cache' = cache
           /\ (Begins("require_cache", w, a) /\ ~Failed) =>
                  /\ done'.op = "require_cache"
                  /\ Truthy(e) => Returns("require_cache", w, a, e)
                  /\ ~Truthy(e) => /\ done'.outcome = "NoCachedValueException"
                                   /\ done'.ret = None]_vars

\* require_cache raised NoCachedValueException although the entry 0 was stored.
C18_Witness ==
    /\ done.op = "require_cache"
    /\ done.outcome = "NoCachedValueException"
    /\ done.old = PyInt(0)
    /\ Entry(cache, token, done.w, done.a) = PyInt(0)

\* C19: an invalidate that returns while a call-through of the same key holds
\* a computed value it has not yet stored leaves that call-through as it is;
\* its store then writes the value computed before the invalidation, and a
\* call-through that starts next returns that value without an invocation.
C19_InvalidateNotAtomic ==
    [][/\ \A w \in Wrapped : \A a \in ArgsOf(w) :
              /\ Returns("invalidate", w, a, None) =>
                     \A q \in InFlightMiss(w, KeyTable[w][a]) :
                         frame'[q] = frame[q] /\ q \in overtaken'
              /\ (/\ Begins("wrapper", w, a) /\ ~Failed
                  /\ done.op = "wrapper" /\ done.overtaken /\ done.outcome = "return"
                  /\ done.w = w /\ done.a = a /\ done.ret # None) =>
                     /\ Returns("wrapper", w, a, done.ret)
                     /\ done'.calls = 0 /\ done'.after = "overtaken"
                     /\ call_count' = call_count
       /\ \A p \in overtaken :
              (frame'[p] # frame[p] /\ ~Failed) =>
                  /\ frame[p].pc = "set"
                  /\ Returns("wrapper", frame[p].w, frame[p].a, frame[p].value)
                  /\ done'.overtaken
                  /\ Entry(cache', token', frame[p].w, frame[p].a) = frame[p].value]_vars

\* A call-through returned, without an invocation, the value that another
\* call-through had computed before an invalidate of the key returned and
\* stored after it.
C19_Witness ==
    /\ done.op = "wrapper"
    /\ done.after = "overtaken"
    /\ done.outcome = "return"
    /\ done.calls = 0
    /\ done.ret = PyInt(0)
    /\ call_count = 1

\* C20: when only the wrapped callable's operations write the backend, every
\* entry of the backend, and every value a call-through or require_cache
\* returns, is a value an earlier invocation of the callable returned to an
\* operation with the same cache key.
C20_NoThinAir ==
    /\ \A e \in DOMAIN cache : <<e.key, cache[e]>> \in computed.seen
    /\ (done.op \in {"wrapper", "require_cache"} /\ done.outcome = "return") =>
           <<done.key, done.ret>> \in computed.seen

\* require_cache returned an entry while another entry was stored.
C20_Witness ==
    /\ computed.kept
    /\ done.op = "require_cache"
    /\ done.outcome = "return"
    /\ done.ret = PyInt(1)
    /\ cache # <<>>

====
